---- MODULE Spec2Model ----
(***************************************************************************)
(* UGC-Flow: the campaign wizard of App.tsx (src/unnamed/part_000, lines   *)
(* 1-1195) and the generation service geminiService.ts (the same file,     *)
(* lines 1196-1622).                                                       *)
(*                                                                         *)
(* The React component is modelled as a state machine.  Every useState     *)
(* cell that the workflow reads is a variable.  An async handler is an     *)
(* entry of `ops': the closure it captured when it was invoked (the        *)
(* `state', `personas' and `genCount' of that render) plus its position    *)
(* in the fan-out loop.  The code between two awaits runs to completion,   *)
(* so one action is the synchronous start of a handler up to its first     *)
(* await, or the resolution of the one outstanding capability call         *)
(* followed by everything up to the next await (or the handler's end).     *)
(* setState(s => ...) is a functional update: it is applied to the current *)
(* value of `state', not to the captured one.                              *)
(*                                                                         *)
(* A user action is enabled when the element that carries its handler is   *)
(* rendered and can be clicked: the render branch of the current step,     *)
(* the element's own condition, and no loading overlay on top of it.       *)
(***************************************************************************)
EXTENDS Integers, Sequences, FiniteSets, TLC

VARIABLES
    state,        \* the WorkflowState cell (App, line 95)
    personas,     \* the personas cell (line 84): the ids, in list order
    loading,      \* line 85
    error,        \* line 87
    dbConnected,  \* line 88
    genCount,     \* line 108
    editInputs,   \* line 110: the image ids whose edit box is non-empty
    fetchPending, \* the startup fetchPersonas() has not resolved yet
    ops,          \* the async stage handlers in flight
    now,          \* the last value Date.now() returned
    personaData,  \* the personas cell (line 84): the Persona of each id
    editingPersona, \* line 114
    isEditorOpen, \* line 113
    uploading,    \* line 89
    uploads,      \* the upload handlers in flight, with what they captured
    storeWrites,  \* the upserts and deletes sent to the personas table
    request,      \* the content parts generateUGCImages built last
    editorClicks  \* the clicks and keystrokes the persona editor has taken

vars == <<state, personas, loading, error, dbConnected, genCount, editInputs,
          fetchPending, ops, now, personaData, editingPersona, isEditorOpen,
          uploading, uploads, storeWrites, request, editorClicks>>

\* The cells of the persona editor, the table writes and the last image
\* request: what the workflow handlers never assign.
EditorFrame ==
    UNCHANGED <<personaData, editingPersona, isEditorOpen, uploading, uploads,
                storeWrites, request, editorClicks>>

----------------------------------------------------------------------------
(* Bounds of the model *)

\* Date.now() readings are abstracted to 0..MaxClock.
MaxClock == 1
\* The largest number of ideas one capability response carries.
MaxIdeas == 1
\* The number of requirements a well-formed capability response carries (the
\* prompt asks for 2-3).
MaxReqs == 2
\* The largest number of inline image parts one capability response carries.
MaxParts == 1
\* The image counts the user picks from (the select offers 1..5).
MaxGenCount == 2
\* The number of edit boxes the user keeps filled in at one time.
MaxEditInputs == 1
\* The number of images the user has edited before starting another edit.
MaxEdits == 1
\* The number of requests sent to the personas table.
MaxWrites == 1
\* The number of clicks and keystrokes the user makes on the editor's
\* controls.
MaxEditorClicks == 4

(* Program constants *)

\* useState(2) of genCount.
DefaultGenCount == 2

\* The ids of SEED_PERSONAS.
SEED_PERSONAS == <<"p1", "p2">>

PersonaIds == {"p1", "p2"}

\* The rows the personas table may hold when the startup select resolves,
\* most recent first.
DbRows == {<< >>, <<"p1">>}

Steps == <<"dashboard", "selection", "ideation", "refinement", "generation",
           "editing", "captions", "complete">>

\* The position of a step in the order of WorkflowState.step.
StepRank(s) == CHOOSE i \in 1..Len(Steps) : Steps[i] = s

----------------------------------------------------------------------------
(* Helpers: JavaScript objects used as maps, and arrays *)

EmptyMap == [k \in {} |-> << >>]

\* Variant: {[k]: v}, the other entries dropped.
PutAlone(f, k, v) == [x \in {k} |-> v]

\* {...f, [k]: v}
Put(f, k, v) == [x \in (DOMAIN f) \cup {k} |-> IF x = k THEN v ELSE f[x]]

Min(a, b) == IF a < b THEN a ELSE b

Range(s) == {s[i] : i \in DOMAIN s}

\* Array.prototype.filter(x => x # v)
RECURSIVE Without(_, _)
Without(s, v) ==
    IF s = << >> THEN << >>
    ELSE IF Head(s) = v THEN Without(Tail(s), v)
    ELSE <<Head(s)>> \o Without(Tail(s), v)

\* s with its k-th entry removed
RemoveAt(s, k) == [i \in 1..(Len(s) - 1) |-> IF i < k THEN s[i] ELSE s[i + 1]]

\* The sequences of n consecutive Date.now() readings that start no earlier
\* than `from'.  Only the equalities between readings matter to the ids built
\* from them, so a reading repeats the one before or is the next value.
RECURSIVE Readings(_, _)
Readings(from, n) ==
    IF n = 0 THEN {<< >>}
    ELSE UNION {{<<t>> \o r : r \in Readings(t, n - 1)} :
                    t \in from..Min(from + 1, MaxClock)}

LastReading(from, tss) == IF tss = << >> THEN from ELSE tss[Len(tss)]

\* ideas.find(i => i.id === ideaId) finds an idea
HasIdea(ideas, ideaId) == \E i \in DOMAIN ideas : ideas[i].id = ideaId

\* personas.find(p => p.id === pid) finds a persona
HasPersona(ps, pid) == \E i \in DOMAIN ps : ps[i] = pid

----------------------------------------------------------------------------
(* Personas: the records, and their mapping to the rows of the table *)

\* A list that is null or undefined.
NoList == <<"null">>

\* v || [] on a list or a missing list: an array, empty or not, is truthy.
OrList(v) == IF v = NoList THEN << >> ELSE v

\* s || null on a string or a missing string ("null"): '' is falsy.
OrNull(s) == IF s \in {"", "null"} THEN "null" ELSE s

mapPersonaFromDb(row) ==
    [id |-> row.id,
     name |-> row.name,
     location |-> row.location,
     country |-> row.country,
     niche |-> OrList(row.niche),
     bio |-> row.bio,
     avatarUrl |-> row.avatar_url,
     refImages |-> OrList(row.ref_images)]

mapPersonaToDb(persona) ==
    [id |-> persona.id,
     name |-> persona.name,
     location |-> persona.location,
     country |-> persona.country,
     niche |-> OrList(persona.niche),
     bio |-> persona.bio,
     avatar_url |-> OrNull(persona.avatarUrl),
     ref_images |-> OrList(persona.refImages)]

\* setEditingPersona(null)
NullPersona ==
    [id |-> "null", name |-> "null", location |-> "null", country |-> "null",
     niche |-> NoList, bio |-> "null", avatarUrl |-> "null",
     refImages |-> NoList]

\* The persona handleCreatePersona opens the editor with.
EmptyPersona ==
    [id |-> "", name |-> "", location |-> "", country |-> "",
     niche |-> << >>, bio |-> "", avatarUrl |-> "", refImages |-> << >>]

\* The entries of SEED_PERSONAS.
SeedPersona(id) ==
    IF id = "p1"
    THEN [id |-> "p1", name |-> "Jakob", location |-> "Berlin",
          country |-> "Germany", niche |-> <<"Tech">>, bio |-> "bio",
          avatarUrl |-> "https://images.unsplash.com/1", refImages |-> << >>]
    ELSE [id |-> "p2", name |-> "Sofia", location |-> "Barcelona",
          country |-> "Spain", niche |-> <<"Fashion">>, bio |-> "bio",
          avatarUrl |-> "https://images.unsplash.com/2", refImages |-> << >>]

\* The row of the personas table with the given id: one written without an
\* avatar, tags or reference images.
RowOf(id) ==
    [id |-> id, name |-> "Jakob", location |-> "Berlin", country |-> "Germany",
     niche |-> NoList, bio |-> "bio", avatar_url |-> "null",
     ref_images |-> NoList]

\* data.map(mapPersonaFromDb), by id.
RowData(rows) == [id \in Range(rows) |-> mapPersonaFromDb(RowOf(id))]

\* SEED_PERSONAS, by id.
SeedData == [id \in Range(SEED_PERSONAS) |-> SeedPersona(id)]

\* No request built yet.
NoRequest ==
    [refImages |-> << >>, fetched |-> << >>, referenceImages |-> << >>,
     parts |-> << >>]

----------------------------------------------------------------------------
(* The initial state *)

InitialState ==
    [step |-> "dashboard",
     selectedPersonaIds |-> << >>,
     mode |-> "null",
     manualActivityInput |-> "",
     generatedIdeas |-> EmptyMap,
     selectedIdeaIds |-> EmptyMap,
     refinementData |-> EmptyMap,
     generatedImages |-> EmptyMap,
     captions |-> EmptyMap]

Init ==
    /\ state = InitialState
    /\ personas = << >>
    /\ loading = FALSE
    /\ error = "null"
    /\ dbConnected = TRUE
    /\ genCount = DefaultGenCount
    /\ editInputs = {}
    /\ fetchPending = TRUE
    /\ ops = << >>
    /\ now = 0
    /\ personaData = EmptyMap
    /\ editingPersona = NullPersona
    /\ isEditorOpen = FALSE
    /\ uploading = FALSE
    /\ uploads = << >>
    /\ storeWrites = << >>
    /\ request = NoRequest
    /\ editorClicks = 0

----------------------------------------------------------------------------
(* What is rendered, and what of it can be clicked *)

\* Variant: the overlay is missing, so the buttons under it stay clickable.
OverlayMissing == FALSE

\* The loading overlay of the ideation, refinement and editing/captions
\* branches: a fixed full-screen layer, rendered above the branch's buttons
\* while `loading' is set.
OverlayBlocks == loading

\* The render branch of step s is shown and no overlay covers it.  The
\* dashboard and selection branches render no overlay; step `generation' has
\* no branch of its own and renders "Unknown State", with no control.
CanClick(s) ==
    /\ state.step = s
    /\ s \in {"dashboard", "selection"} \/ ~OverlayBlocks

\* {personas.length > 0 && <button onClick={handleStartCreating}>}
StartCreatingShown == Len(personas) > 0

\* disabled={state.selectedPersonaIds.length === 0} of the Continue button
ContinueEnabled == Len(state.selectedPersonaIds) # 0

\* {!state.mode && ...}: the mode chooser
ModeChooserShown == state.mode = "null"

\* Variant: the manual brief (and its Back button) stays while mode is manual.
ManualBriefAlways == state.mode = "manual"

\* {state.mode === 'manual' && Object.keys(state.generatedIdeas).length === 0}
ManualBriefShown ==
    state.mode = "manual" /\ Cardinality(DOMAIN state.generatedIdeas) = 0

\* {Object.keys(state.generatedIdeas).length > 0 && ...}: the idea grid
IdeasShown == Cardinality(DOMAIN state.generatedIdeas) > 0

\* The ideas the grid shows for persona pid: state.generatedIdeas[pid] || []
ShownIdeas(pid) ==
    IF pid \in DOMAIN state.generatedIdeas THEN state.generatedIdeas[pid]
    ELSE << >>

\* Variant: the Next Step button is never disabled.
NextStepAlways == TRUE

\* The Next Step button is not disabled:
\* Object.keys(selectedIdeaIds).length === selectedPersonaIds.length
NextStepEnabled ==
    Cardinality(DOMAIN state.selectedIdeaIds) = Len(state.selectedPersonaIds)

----------------------------------------------------------------------------
(* Startup load and persona management *)

\* fetchPersonas resolves with the table's rows.
FetchPersonasOk ==
    /\ fetchPending
    /\ \E rows \in DbRows :
        /\ personas' = rows
        /\ personaData' = RowData(rows)
    /\ dbConnected' = TRUE
    /\ fetchPending' = FALSE
    /\ UNCHANGED <<state, loading, error, genCount, editInputs, ops, now,
                   editingPersona, isEditorOpen, uploading, uploads,
                   storeWrites, request, editorClicks>>

\* fetchPersonas fails: the seed data, and local mode.
FetchPersonasFail ==
    /\ fetchPending
    /\ personas' = SEED_PERSONAS
    /\ personaData' = SeedData
    /\ dbConnected' = FALSE
    /\ fetchPending' = FALSE
    /\ UNCHANGED <<state, loading, error, genCount, editInputs, ops, now,
                   editingPersona, isEditorOpen, uploading, uploads,
                   storeWrites, request, editorClicks>>

\* Variant: the table is written to whether the startup select succeeded or
\* not.
StoreAlways == TRUE

\* if (dbConnected) of handleDeletePersona and handleSavePersona, read when
\* the handler is invoked.
StoreReachable == dbConnected

\* A request sent to the personas table: supabase.from('personas').delete()
\* .eq('id', id), or .upsert(payload) with the persona the payload was mapped
\* from.
DeleteWrite(id) ==
    [op |-> "delete", id |-> id, persona |-> NullPersona,
     payload |-> mapPersonaToDb(NullPersona)]

UpsertWrite(persona) ==
    [op |-> "upsert", id |-> persona.id, persona |-> persona,
     payload |-> mapPersonaToDb(persona)]

\* The writes after a handler that sends w when the table is reachable.
Written(w) == IF StoreReachable THEN Append(storeWrites, w) ELSE storeWrites

\* The modal of renderPersonaEditor covers the dashboard.
EditorShown == isEditorOpen /\ editingPersona # NullPersona

\* handleDeletePersona, confirmed by the user.  The result of the delete sent
\* to the table changes no cell of the component.
handleDeletePersona ==
    /\ CanClick("dashboard")
    /\ ~EditorShown
    /\ StoreReachable => Len(storeWrites) < MaxWrites
    /\ \E id \in Range(personas) :
        /\ personas' = Without(personas, id)
        /\ personaData' = [x \in Range(Without(personas, id)) |-> personaData[x]]
        /\ state' = [state EXCEPT
                       !.selectedPersonaIds = Without(state.selectedPersonaIds, id)]
        /\ storeWrites' = Written(DeleteWrite(id))
    /\ UNCHANGED <<loading, error, dbConnected, genCount, editInputs,
                   fetchPending, ops, now, editingPersona, isEditorOpen,
                   uploading, uploads, request, editorClicks>>

----------------------------------------------------------------------------
(* Dashboard and selection *)

handleStartCreating ==
    /\ EditorFrame
    /\ CanClick("dashboard")
    /\ ~EditorShown
    /\ StartCreatingShown
    /\ state' = [state EXCEPT !.step = "selection"]
    /\ UNCHANGED <<personas, loading, error, dbConnected, genCount, editInputs,
                   fetchPending, ops, now>>

\* Variant: a back arrow to the dashboard on the ideation screen as well.
SelectionBackFromIdeation ==
    /\ EditorFrame
    /\ state.step \in {"selection", "ideation"}
    /\ ~OverlayBlocks
    /\ state' = [state EXCEPT !.step = "dashboard"]
    /\ UNCHANGED <<personas, loading, error, dbConnected, genCount, editInputs,
                   fetchPending, ops, now>>

\* The back arrow of the selection screen.
SelectionBack ==
    /\ EditorFrame
    /\ CanClick("selection")
    /\ state' = [state EXCEPT !.step = "dashboard"]
    /\ UNCHANGED <<personas, loading, error, dbConnected, genCount, editInputs,
                   fetchPending, ops, now>>

\* Variant: the id is appended whether it is selected or not.
ToggledSelectionAppend(sel, id) == Append(sel, id)

\* The new selectedPersonaIds of togglePersonaSelection(id).
ToggledSelection(sel, id) ==
    IF id \in Range(sel) THEN Without(sel, id) ELSE Append(sel, id)

togglePersonaSelection ==
    /\ EditorFrame
    /\ CanClick("selection")
    /\ \E id \in Range(personas) :
        state' = [state EXCEPT
                    !.selectedPersonaIds = ToggledSelection(state.selectedPersonaIds, id)]
    /\ UNCHANGED <<personas, loading, error, dbConnected, genCount, editInputs,
                   fetchPending, ops, now>>

proceedToIdeation ==
    /\ EditorFrame
    /\ CanClick("selection")
    /\ ContinueEnabled
    /\ state' = (IF Len(state.selectedPersonaIds) = 0 THEN state
                 ELSE [state EXCEPT !.step = "ideation"])
    /\ UNCHANGED <<personas, loading, error, dbConnected, genCount, editInputs,
                   fetchPending, ops, now>>

----------------------------------------------------------------------------
(* Ideation: the synchronous handlers *)

\* "I have an idea"
ChooseManual ==
    /\ EditorFrame
    /\ CanClick("ideation")
    /\ ModeChooserShown
    /\ state' = [state EXCEPT !.mode = "manual"]
    /\ UNCHANGED <<personas, loading, error, dbConnected, genCount, editInputs,
                   fetchPending, ops, now>>

\* The Back button of the manual brief.
ManualBack ==
    /\ EditorFrame
    /\ CanClick("ideation")
    /\ ManualBriefShown
    /\ state' = [state EXCEPT !.mode = "null"]
    /\ UNCHANGED <<personas, loading, error, dbConnected, genCount, editInputs,
                   fetchPending, ops, now>>

\* The brief textarea: empty, or some text.
SetManualActivityInput ==
    /\ EditorFrame
    /\ CanClick("ideation")
    /\ ManualBriefShown
    /\ \E v \in {"", "brief"} :
        /\ v # state.manualActivityInput
        /\ state' = [state EXCEPT !.manualActivityInput = v]
    /\ UNCHANGED <<personas, loading, error, dbConnected, genCount, editInputs,
                   fetchPending, ops, now>>

\* Variant: selecting the chosen idea again clears the choice.
SelectIdeaMapToggle(sel, personaId, ideaId) ==
    IF personaId \in DOMAIN sel /\ sel[personaId] = ideaId
    THEN [k \in DOMAIN sel \ {personaId} |-> sel[k]]
    ELSE Put(sel, personaId, ideaId)

\* The new selectedIdeaIds of selectIdea(personaId, ideaId).
SelectIdeaMap(sel, personaId, ideaId) == Put(sel, personaId, ideaId)

\* selectIdea(personaId, ideaId), the handler itself.
selectIdea(personaId, ideaId) ==
    /\ state' = [state EXCEPT
                   !.selectedIdeaIds = SelectIdeaMap(state.selectedIdeaIds,
                                                     personaId, ideaId)]
    /\ UNCHANGED <<personas, loading, error, dbConnected, genCount, editInputs,
                   fetchPending, ops, now>>

\* A click on an idea card: selectIdea(pid, idea.id) for a card of the grid.
ClickIdea ==
    /\ EditorFrame
    /\ CanClick("ideation")
    /\ IdeasShown
    /\ \E pid \in Range(state.selectedPersonaIds) :
        \E n \in DOMAIN ShownIdeas(pid) :
            selectIdea(pid, ShownIdeas(pid)[n].id)

----------------------------------------------------------------------------
(* The generation service: responses and what each function makes of them *)

\* What ai.models.generateContent gives a text call: it rejects ("fail"), or
\* resolves with text that is no JSON ("malformed"), or with a JSON array of n
\* well-formed items ("ok"), n one of `counts'.
TextResponses(counts) ==
    {[kind |-> "fail", n |-> 0], [kind |-> "malformed", n |-> 0]}
        \cup {[kind |-> "ok", n |-> n] : n \in counts}

\* What it gives an image call: it rejects, or resolves with n inline image
\* parts.
ImageResponses ==
    {[kind |-> "fail", n |-> 0]} \cup {[kind |-> "ok", n |-> n] : n \in 0..MaxParts}

\* generateManualVariants: JSON.parse(response.text || "[]") outside any try.
\* The result: the function throws, or returns n items.
ParseManualVariants(r) ==
    IF r.kind = "ok" THEN [threw |-> FALSE, n |-> r.n]
    ELSE [threw |-> TRUE, n |-> 0]

\* generateAutoTrends: the call rejects, or the text is searched for a JSON
\* array and parsed inside a try that falls back to [].
ParseAutoTrends(r) ==
    IF r.kind = "fail" THEN [threw |-> TRUE, n |-> 0]
    ELSE IF r.kind = "malformed" THEN [threw |-> FALSE, n |-> 0]
    ELSE [threw |-> FALSE, n |-> r.n]

\* analyzeIdeaRequirements: JSON.parse(response.text || "[]") outside any try.
ParseRequirements(r) ==
    IF r.kind = "ok" THEN [threw |-> FALSE, n |-> r.n]
    ELSE [threw |-> TRUE, n |-> 0]

\* generateCaptionStrategy: JSON.parse outside any try.
ParseCaption(r) ==
    IF r.kind = "ok" THEN [threw |-> FALSE, n |-> 1]
    ELSE [threw |-> TRUE, n |-> 0]

\* The id `${persona.id}-idea-${Date.now()}-${i}` (tag "idea") or
\* `${persona.id}-trend-${Date.now()}-${i}` (tag "trend").  The timestamp and
\* the index are runs of digits at the end of the string, so the string
\* determines the four components: the id is the tuple.
IdeaId(pid, tag, ts, i) == <<pid, tag, ts, i>>

\* Variant: the idea carries no back-reference to its persona.
MkIdeaNoPersona(pid, tag, ts, i) ==
    [id |-> IdeaId(pid, tag, ts, i), personaId |-> ""]

\* The GeneratedIdea of raw.map((r, i) => ...) at index i (from 0) for the
\* persona with id pid, the clock reading ts.
MkIdea(pid, tag, ts, i) ==
    [id |-> IdeaId(pid, tag, ts, i), personaId |-> pid]

\* The list a generate function returns for the persona with id pid: one idea
\* per item, each with its own Date.now() reading.
MkIdeas(pid, tag, tss) ==
    [m \in 1..Len(tss) |-> MkIdea(pid, tag, tss[m], m - 1)]

\* `${idea.id}-req-${i}`
MkReqs(ideaId, n) ==
    [m \in 1..n |-> [id |-> <<ideaId, "req", m - 1>>, userResponse |-> ""]]

\* The GeneratedImage pushed for one inline part of the response to call i.
MkImage(ideaId, ts, i) ==
    [id |-> <<ideaId, "img", ts, i>>, ideaId |-> ideaId, imageUrl |-> "generated"]

\* The images pushed for the inline parts of the response to call i.
MkImages(ideaId, tss, i) ==
    [m \in 1..Len(tss) |-> MkImage(ideaId, tss[m], i)]

\* editImageWithChat's result: {...image, imageUrl: <the returned part>}
EditedImage(image) == [image EXCEPT !.imageUrl = "edited"]

----------------------------------------------------------------------------
(* Async stage handlers *)

NoId == << >>

\* The closure of a stage handler invoked now.
NewOp(kind, mode, pid, ideaId, imageId) ==
    [kind |-> kind, mode |-> mode, pid |-> pid, ideaId |-> ideaId,
     imageId |-> imageId,
     cap |-> state, personas |-> personas, genCount |-> genCount,
     idx |-> 1, acc |-> EmptyMap, i |-> 0, results |-> << >>]

ScanCall(j) == [tag |-> "call", idx |-> j]
ScanThrow == [tag |-> "throw", idx |-> 0]
ScanEnd == [tag |-> "end", idx |-> 0]

\* generateIdeas, the loop from its j-th persona on: the next capability call,
\* or a TypeError (the persona is not in the captured list and the prompt
\* reads persona.name), or the end of the loop.
ScanGenerateIdeas(o, j) ==
    IF j > Len(o.cap.selectedPersonaIds) THEN ScanEnd
    ELSE IF HasPersona(o.personas, o.cap.selectedPersonaIds[j]) THEN ScanCall(j)
    ELSE ScanThrow

\* regenerateIdea: one call.
ScanRegenerateIdea(o, j) ==
    IF j > 1 THEN ScanEnd
    ELSE IF HasPersona(o.personas, o.pid) THEN ScanCall(1)
    ELSE ScanThrow

\* proceedToRefinement, the loop from its j-th persona on.
RECURSIVE ScanRefinement(_, _)
ScanRefinement(o, j) ==
    IF j > Len(o.cap.selectedPersonaIds) THEN ScanEnd
    ELSE LET pid == o.cap.selectedPersonaIds[j] IN
        IF pid \notin DOMAIN o.cap.selectedIdeaIds THEN ScanRefinement(o, j + 1)
        ELSE IF pid \notin DOMAIN o.cap.generatedIdeas THEN ScanThrow
        ELSE IF ~HasIdea(o.cap.generatedIdeas[pid], o.cap.selectedIdeaIds[pid])
            THEN ScanRefinement(o, j + 1)
        ELSE IF HasPersona(o.personas, pid) THEN ScanCall(j)
        ELSE ScanThrow

\* proceedToGeneration, the loop from its j-th persona on.  generateUGCImages
\* builds its prompt from persona.name and idea.description before its first
\* await: both are read through a non-null assertion.
RECURSIVE ScanGeneration(_, _)
ScanGeneration(o, j) ==
    IF j > Len(o.cap.selectedPersonaIds) THEN ScanEnd
    ELSE LET pid == o.cap.selectedPersonaIds[j] IN
        IF pid \notin DOMAIN o.cap.selectedIdeaIds THEN ScanGeneration(o, j + 1)
        ELSE IF pid \notin DOMAIN o.cap.generatedIdeas THEN ScanThrow
        ELSE IF ~HasPersona(o.personas, pid) THEN ScanThrow
        ELSE IF ~HasIdea(o.cap.generatedIdeas[pid], o.cap.selectedIdeaIds[pid])
            THEN ScanThrow
        ELSE IF o.genCount <= 0 THEN ScanGeneration(o, j + 1)
        ELSE ScanCall(j)

\* proceedToCaptions, the loop from its j-th persona on: no persona is skipped.
ScanCaptions(o, j) ==
    IF j > Len(o.cap.selectedPersonaIds) THEN ScanEnd
    ELSE LET pid == o.cap.selectedPersonaIds[j] IN
        IF pid \notin DOMAIN o.cap.generatedIdeas THEN ScanThrow
        ELSE IF pid \notin DOMAIN o.cap.selectedIdeaIds THEN ScanThrow
        ELSE IF ~HasIdea(o.cap.generatedIdeas[pid], o.cap.selectedIdeaIds[pid])
            THEN ScanThrow
        ELSE IF HasPersona(o.personas, pid) THEN ScanCall(j)
        ELSE ScanThrow

\* handleEditImage: one call, on the image found in the captured list.
ScanEditImage(o, j) ==
    IF j > 1 THEN ScanEnd
    ELSE IF o.ideaId \notin DOMAIN o.cap.generatedImages THEN ScanThrow
    ELSE IF \E m \in DOMAIN o.cap.generatedImages[o.ideaId] :
                o.cap.generatedImages[o.ideaId][m].id = o.imageId
        THEN ScanCall(1)
    ELSE ScanThrow

Scan(o, j) ==
    CASE o.kind = "generateIdeas" -> ScanGenerateIdeas(o, j)
      [] o.kind = "regenerateIdea" -> ScanRegenerateIdea(o, j)
      [] o.kind = "proceedToRefinement" -> ScanRefinement(o, j)
      [] o.kind = "proceedToGeneration" -> ScanGeneration(o, j)
      [] o.kind = "proceedToCaptions" -> ScanCaptions(o, j)
      [] o.kind = "handleEditImage" -> ScanEditImage(o, j)

(* The setState at the end of each handler's try block, applied to the
   current state st. *)

GenerateIdeasCommit(o, st) ==
    [st EXCEPT !.generatedIdeas = o.acc, !.mode = o.mode, !.step = "ideation"]

RegenerateIdeaCommit(o, st) ==
    [st EXCEPT !.generatedIdeas = Put(st.generatedIdeas, o.pid, o.acc[o.pid])]

ProceedToRefinementCommit(o, st) ==
    [st EXCEPT !.refinementData = o.acc, !.step = "refinement"]

\* Variant: the image fan-out ends on the refinement screen.
ProceedToGenerationCommitBack(o, st) ==
    [st EXCEPT !.generatedImages = o.acc, !.step = "refinement"]

ProceedToGenerationCommit(o, st) ==
    [st EXCEPT !.generatedImages = o.acc, !.step = "editing"]

\* Variant: the captions are stored under the persona's id.
ProceedToCaptionsCommitByPersona(o, st) ==
    [st EXCEPT !.captions =
        [pid \in Range(st.selectedPersonaIds) |-> o.acc[st.selectedIdeaIds[pid]]]]

ProceedToCaptionsCommit(o, st) ==
    [st EXCEPT !.captions = o.acc]

\* s.generatedImages[ideaId].map(img => img.id === imageId ? newImage : img)
HandleEditImageCommit(o, st) ==
    [st EXCEPT !.generatedImages[o.ideaId] =
        [m \in DOMAIN @ |-> IF @[m].id = o.imageId THEN o.acc[o.imageId]
                            ELSE @[m]]]

CommitState(o, st) ==
    CASE o.kind = "generateIdeas" -> GenerateIdeasCommit(o, st)
      [] o.kind = "regenerateIdea" -> RegenerateIdeaCommit(o, st)
      [] o.kind = "proceedToRefinement" -> ProceedToRefinementCommit(o, st)
      [] o.kind = "proceedToGeneration" -> ProceedToGenerationCommit(o, st)
      [] o.kind = "proceedToCaptions" -> ProceedToCaptionsCommit(o, st)
      [] o.kind = "handleEditImage" -> HandleEditImageCommit(o, st)

(* The catch block of each handler, applied to the current state st: every
   one of them only reports, and leaves the WorkflowState to what the handler
   had already set. *)

\* Variant: the catch block keeps the ideas gathered before the failure.
GenerateIdeasCatchPartial(o, st) == [st EXCEPT !.generatedIdeas = o.acc]

GenerateIdeasCatch(o, st) == st

ProceedToRefinementCatch(o, st) == st

ProceedToGenerationCatch(o, st) == st

ProceedToCaptionsCatch(o, st) == st

CatchState(o, st) ==
    CASE o.kind = "generateIdeas" -> GenerateIdeasCatch(o, st)
      [] o.kind = "proceedToRefinement" -> ProceedToRefinementCatch(o, st)
      [] o.kind = "proceedToGeneration" -> ProceedToGenerationCatch(o, st)
      [] o.kind = "proceedToCaptions" -> ProceedToCaptionsCatch(o, st)
      [] OTHER -> st

\* The message each catch block gives setError; regenerateIdea has no catch.
ErrorMessage(kind) ==
    CASE kind = "generateIdeas" -> "Failed to generate ideas. Ensure API Key is set."
      [] kind = "proceedToRefinement" -> "Analysis failed."
      [] kind = "proceedToGeneration" -> "Image Generation Failed."
      [] kind = "handleEditImage" -> "Editing failed."
      [] kind = "proceedToCaptions" -> "Caption generation failed."

\* Variant: no catch block sets an error.
CatchErrorSilent(o, err) == err

CatchError(o, err) ==
    IF o.kind = "regenerateIdea" THEN err ELSE ErrorMessage(o.kind)

\* ops with handler k (0: a handler just invoked) at its next await
PutOp(k, o) == IF k = 0 THEN Append(ops, o) ELSE [ops EXCEPT ![k] = o]

\* ops with handler k ended
DropOp(k) == IF k = 0 THEN ops ELSE RemoveAt(ops, k)

\* Variant: no finally block, the loading flag stays as it is.
ThrowNoFinally(k, o, st) ==
    /\ ops' = DropOp(k)
    /\ state' = CatchState(o, st)
    /\ error' = CatchError(o, error)
    /\ loading' = loading
    /\ editInputs' = editInputs

\* Handler k throws: its catch and finally blocks.
Throw(k, o, st) ==
    /\ ops' = DropOp(k)
    /\ state' = CatchState(o, st)
    /\ error' = CatchError(o, error)
    /\ loading' = FALSE
    /\ editInputs' = editInputs

\* Handler k runs on from the j-th entry of its loop, with st the state and
\* err the error its synchronous code has set so far, and ld the loading flag:
\* up to its next capability call, or through its commit or its catch, and
\* then its finally block.
Continue(k, o, j, st, err, ld) ==
    LET sc == Scan(o, j) IN
    /\ ops' = (IF sc.tag = "call"
               THEN PutOp(k, [o EXCEPT !.idx = sc.idx, !.i = 0, !.results = << >>])
               ELSE DropOp(k))
    /\ state' = (CASE sc.tag = "call" -> st
                   [] sc.tag = "throw" -> CatchState(o, st)
                   [] sc.tag = "end" -> CommitState(o, st))
    /\ error' = (IF sc.tag = "throw" THEN CatchError(o, err) ELSE err)
    /\ loading' = (IF sc.tag = "call" THEN ld ELSE FALSE)
    /\ editInputs' = (IF sc.tag = "end" /\ o.kind = "handleEditImage"
                      THEN editInputs \ {o.imageId} ELSE editInputs)

Frame == UNCHANGED <<personas, dbConnected, genCount, fetchPending>>

(* Ideation handlers *)

\* generateIdeas(mode), from its first line to its first await.
generateIdeas(mode) ==
    /\ Continue(0, NewOp("generateIdeas", mode, "", NoId, NoId), 1, state, "null", TRUE)
    /\ now' = now
    /\ Frame

\* "Surprise me"
GenerateIdeasAuto ==
    /\ EditorFrame
    /\ CanClick("ideation")
    /\ ModeChooserShown
    /\ generateIdeas("auto")

\* "Generate Variants"
GenerateIdeasManual ==
    /\ EditorFrame
    /\ CanClick("ideation")
    /\ ManualBriefShown
    /\ generateIdeas("manual")

\* The capability call of a generateIdeas in flight resolves or rejects.
ResolveIdeas(responses) ==
    \E k \in DOMAIN ops :
        /\ ops[k].kind = "generateIdeas"
        /\ \E r \in responses :
            LET o == ops[k]
                pid == o.cap.selectedPersonaIds[o.idx]
                p == IF o.mode = "manual" THEN ParseManualVariants(r)
                     ELSE ParseAutoTrends(r)
                tag == IF o.mode = "manual" THEN "idea" ELSE "trend"
            IN  IF p.threw
                THEN Throw(k, o, state) /\ now' = now
                ELSE \E tss \in Readings(now, p.n) :
                        /\ now' = LastReading(now, tss)
                        /\ Continue(k, [o EXCEPT !.acc = Put(@, pid, MkIdeas(pid, tag, tss))],
                                    o.idx + 1, state, error, loading)
        /\ Frame

ResolveGenerateIdeas ==
    /\ EditorFrame
    /\ ops # << >>
    /\ ResolveIdeas(TextResponses(0..MaxIdeas))

\* The Regenerate button of a persona of the idea grid.
regenerateIdea ==
    /\ EditorFrame
    /\ CanClick("ideation")
    /\ IdeasShown
    /\ \E pid \in Range(state.selectedPersonaIds) :
        Continue(0, NewOp("regenerateIdea", "null", pid, NoId, NoId), 1,
                 state, error, TRUE)
    /\ now' = now
    /\ Frame

ResolveRegenerateIdea ==
    /\ EditorFrame
    /\ \E k \in DOMAIN ops :
        /\ ops[k].kind = "regenerateIdea"
        /\ \E r \in TextResponses(0..MaxIdeas) :
            LET o == ops[k]
                manual == o.cap.mode = "manual"
                p == IF manual THEN ParseManualVariants(r) ELSE ParseAutoTrends(r)
                tag == IF manual THEN "idea" ELSE "trend"
            IN  IF p.threw
                THEN Throw(k, o, state) /\ now' = now
                ELSE \E tss \in Readings(now, p.n) :
                        /\ now' = LastReading(now, tss)
                        /\ Continue(k, [o EXCEPT !.acc = Put(@, o.pid, MkIdeas(o.pid, tag, tss))],
                                    2, state, error, loading)
        /\ Frame

\* "Next Step"
proceedToRefinement ==
    /\ EditorFrame
    /\ CanClick("ideation")
    /\ IdeasShown
    /\ NextStepEnabled
    /\ Continue(0, NewOp("proceedToRefinement", "null", "", NoId, NoId), 1,
                state, "null", TRUE)
    /\ now' = now
    /\ Frame

ResolveRequirements(responses) ==
    \E k \in DOMAIN ops :
        /\ ops[k].kind = "proceedToRefinement"
        /\ \E r \in responses :
            LET o == ops[k]
                ideaId == o.cap.selectedIdeaIds[o.cap.selectedPersonaIds[o.idx]]
                p == ParseRequirements(r)
            IN  IF p.threw
                THEN Throw(k, o, state)
                ELSE Continue(k, [o EXCEPT !.acc = Put(@, ideaId, MkReqs(ideaId, p.n))],
                              o.idx + 1, state, error, loading)
        /\ now' = now
        /\ Frame

ResolveRefinement ==
    /\ EditorFrame
    /\ ops # << >>
    /\ ResolveRequirements(TextResponses({MaxReqs}))

(* Refinement handlers *)

\* The image-count select of the production settings.
setGenCount ==
    /\ EditorFrame
    /\ CanClick("refinement")
    /\ \E n \in 1..MaxGenCount :
        /\ n # genCount
        /\ genCount' = n
    /\ UNCHANGED <<state, personas, loading, error, dbConnected, editInputs,
                   fetchPending, ops, now>>

\* "Start Generation"
proceedToGeneration ==
    /\ EditorFrame
    /\ CanClick("refinement")
    /\ Continue(0, NewOp("proceedToGeneration", "null", "", NoId, NoId), 1,
                [state EXCEPT !.step = "generation"], error, TRUE)
    /\ now' = now
    /\ Frame

\* One image call of generateUGCImages resolves or rejects: the inline parts
\* of a response are pushed, a rejection is caught and logged; then the next
\* call of the same idea, or the idea's list is stored and the handler's loop
\* goes on.
ResolveImage(responses) ==
    \E k \in DOMAIN ops :
        /\ ops[k].kind = "proceedToGeneration"
        /\ \E r \in responses :
            LET o == ops[k]
                ideaId == o.cap.selectedIdeaIds[o.cap.selectedPersonaIds[o.idx]]
            IN  \E tss \in Readings(now, r.n) :
                LET res == o.results \o MkImages(ideaId, tss, o.i) IN
                /\ now' = LastReading(now, tss)
                /\ IF o.i + 1 < o.genCount
                   THEN /\ ops' = [ops EXCEPT ![k] = [o EXCEPT !.i = @ + 1, !.results = res]]
                        /\ UNCHANGED <<state, error, loading, editInputs>>
                   ELSE Continue(k, [o EXCEPT !.acc = Put(@, ideaId, res)],
                                 o.idx + 1, state, error, loading)
        /\ Frame

\* The call resolves with at most MaxParts inline parts, or rejects.
ResolveImageCall ==
    /\ EditorFrame
    /\ ops # << >>
    /\ ResolveImage(ImageResponses)

(* Editing handlers *)

\* The images the editing screen shows: for each selected persona,
\* state.generatedImages[state.selectedIdeaIds[pid]] || [].
ShownImages ==
    UNION {{<<state.selectedIdeaIds[pid],
              state.generatedImages[state.selectedIdeaIds[pid]][m].id>> :
                m \in DOMAIN state.generatedImages[state.selectedIdeaIds[pid]]} :
           pid \in {q \in Range(state.selectedPersonaIds) :
                       /\ q \in DOMAIN state.selectedIdeaIds
                       /\ state.selectedIdeaIds[q] \in DOMAIN state.generatedImages}}

\* Typing into, or clearing, the edit box of a shown image.
setEditInput ==
    /\ EditorFrame
    /\ CanClick("editing")
    /\ \E im \in ShownImages :
        \/ /\ im[2] \notin editInputs
           /\ Cardinality(editInputs) < MaxEditInputs
           /\ editInputs' = editInputs \cup {im[2]}
        \/ /\ im[2] \in editInputs
           /\ editInputs' = editInputs \ {im[2]}
    /\ UNCHANGED <<state, personas, loading, error, dbConnected, genCount,
                   fetchPending, ops, now>>

\* The images of the state that an edit has replaced.
EditedImages ==
    UNION {{state.generatedImages[d][m].id :
                m \in {x \in DOMAIN state.generatedImages[d] :
                          state.generatedImages[d][x].imageUrl = "edited"}} :
           d \in DOMAIN state.generatedImages}

\* The wand button of a shown image whose edit box is non-empty.
handleEditImage ==
    /\ EditorFrame
    /\ CanClick("editing")
    /\ Cardinality(EditedImages) < MaxEdits
    /\ \E im \in ShownImages :
        /\ im[2] \in editInputs
        /\ Continue(0, NewOp("handleEditImage", "null", "", im[1], im[2]), 1,
                    state, error, TRUE)
    /\ now' = now
    /\ Frame

\* editImageWithChat resolves or rejects; a response with no inline part
\* throws "No image returned from edit".
ResolveEditImage ==
    /\ EditorFrame
    /\ \E k \in DOMAIN ops :
        /\ ops[k].kind = "handleEditImage"
        /\ \E r \in ImageResponses :
            LET o == ops[k]
                images == o.cap.generatedImages[o.ideaId]
                imageToEdit == images[CHOOSE m \in DOMAIN images : images[m].id = o.imageId]
            IN  IF r.kind = "fail" \/ r.n = 0
                THEN Throw(k, o, state)
                ELSE Continue(k, [o EXCEPT !.acc = Put(@, o.imageId, EditedImage(imageToEdit))],
                              2, state, error, loading)
        /\ now' = now
        /\ Frame

\* "Generate Captions"
proceedToCaptions ==
    /\ EditorFrame
    /\ CanClick("editing")
    /\ Continue(0, NewOp("proceedToCaptions", "null", "", NoId, NoId), 1,
                [state EXCEPT !.step = "captions"], error, TRUE)
    /\ now' = now
    /\ Frame

ResolveCaption(responses) ==
    \E k \in DOMAIN ops :
        /\ ops[k].kind = "proceedToCaptions"
        /\ \E r \in responses :
            LET o == ops[k]
                ideaId == o.cap.selectedIdeaIds[o.cap.selectedPersonaIds[o.idx]]
                p == ParseCaption(r)
            IN  IF p.threw
                THEN Throw(k, o, state)
                ELSE Continue(k, [o EXCEPT !.acc = Put(@, ideaId,
                                     [caption |-> "caption", hashtags |-> << >>])],
                              o.idx + 1, state, error, loading)
        /\ now' = now
        /\ Frame

ResolveCaptions ==
    /\ EditorFrame
    /\ ops # << >>
    /\ ResolveCaption(TextResponses({1}))

----------------------------------------------------------------------------
(* The specification *)

Next ==
    \/ FetchPersonasOk
    \/ FetchPersonasFail
    \/ handleDeletePersona
    \/ handleStartCreating
    \/ SelectionBack
    \/ togglePersonaSelection
    \/ proceedToIdeation
    \/ ChooseManual
    \/ ManualBack
    \/ SetManualActivityInput
    \/ GenerateIdeasAuto
    \/ GenerateIdeasManual
    \/ ResolveGenerateIdeas
    \/ regenerateIdea
    \/ ResolveRegenerateIdea
    \/ ClickIdea
    \/ proceedToRefinement
    \/ ResolveRefinement
    \/ setGenCount
    \/ proceedToGeneration
    \/ ResolveImageCall
    \/ setEditInput
    \/ handleEditImage
    \/ ResolveEditImage
    \/ proceedToCaptions
    \/ ResolveCaptions

Spec == Init /\ [][Next]_vars

----------------------------------------------------------------------------
(* The engine's selectIdea called directly, with any arguments *)

\* The idea ids a caller may pass: the first idea of any persona, of either
\* strategy, at any clock reading.
AnyIdeaIds ==
    {IdeaId(pid, tag, ts, 0) :
        pid \in PersonaIds, tag \in {"idea", "trend"}, ts \in 0..MaxClock}

\* selectIdea(personaId, ideaId) invoked with arguments of the caller's
\* choice while the idea grid is up.
selectIdeaCall ==
    /\ EditorFrame
    /\ CanClick("ideation")
    /\ IdeasShown
    /\ \E pid \in PersonaIds, iid \in AnyIdeaIds : selectIdea(pid, iid)

NextSelectIdea ==
    \/ FetchPersonasOk
    \/ FetchPersonasFail
    \/ handleDeletePersona
    \/ handleStartCreating
    \/ SelectionBack
    \/ togglePersonaSelection
    \/ proceedToIdeation
    \/ ChooseManual
    \/ ManualBack
    \/ SetManualActivityInput
    \/ GenerateIdeasAuto
    \/ GenerateIdeasManual
    \/ ResolveGenerateIdeas
    \/ regenerateIdea
    \/ ResolveRegenerateIdea
    \/ ClickIdea
    \/ selectIdeaCall

SpecSelectIdea == Init /\ [][NextSelectIdea]_vars

----------------------------------------------------------------------------
(* Properties *)

\* The step is after ideation.
PastIdeation == StepRank(state.step) > StepRank("ideation")

\* Some catch block reports the failure of a handler of this kind in this step.
Reported(kind) ==
    error # ErrorMessage(kind) /\ error' = ErrorMessage(kind)

\* The state the handler that ends in this step captured when it was invoked:
\* a handler that throws before its first await captured the current state.
CapturedState == IF ops = << >> THEN state ELSE ops[1].cap

\* The handler in flight, of this kind, ends in this step.
Ends(kind) == ops # << >> /\ ops[1].kind = kind /\ ops' = << >>

\* A proceedToGeneration handler ends in this step: the one in flight, or one
\* that is invoked and runs to its end without a capability call.
GenerationEnds ==
    \/ Ends("proceedToGeneration")
    \/ /\ ops = << >> /\ ops' = << >>
       /\ state.step = "refinement"
       /\ state'.step \in {"generation", "editing"}

\* The images of the ideas whose calls the handler that ends had finished.
FinishedImages == IF ops = << >> THEN EmptyMap ELSE ops[1].acc

\* C1: in every reachable state, the step is refinement, generation, editing,
\* captions or complete only if every id in selectedPersonaIds is a key of
\* selectedIdeaIds.
C1_NoAdvanceWithoutChosenIdea ==
    PastIdeation =>
        \A pid \in Range(state.selectedPersonaIds) :
            pid \in DOMAIN state.selectedIdeaIds

\* A campaign of two personas has reached refinement.
C1_Witness ==
    /\ state.step = "refinement"
    /\ Len(state.selectedPersonaIds) = 2

\* C2: generateIdeas is all-or-nothing: when it reports a failure,
\* generatedIdeas, mode and step are what they were when it was invoked (the
\* ideas of the personas whose calls had succeeded are dropped), the one error
\* is set and the loading flag is cleared.
C2_GenerateIdeasAllOrNothing ==
    [][Reported("generateIdeas") =>
        /\ state'.generatedIdeas = CapturedState.generatedIdeas
        /\ state'.mode = CapturedState.mode
        /\ state'.step = CapturedState.step
        /\ loading' = FALSE]_vars

\* generateIdeas has failed for a campaign of two personas after a call of it
\* had returned ideas (the clock has been read), and no idea is stored.
C2_Witness ==
    /\ error = ErrorMessage("generateIdeas")
    /\ ~loading
    /\ Len(state.selectedPersonaIds) = 2
    /\ now > 0
    /\ state.generatedIdeas = EmptyMap

\* C3: in generateImages a failed image call is not fatal: whenever the image
\* fan-out ends, whatever calls failed, generatedImages holds under each idea
\* id the images of that idea's calls that succeeded, and the step is editing.
C3_ImageFailuresNotFatal ==
    [][GenerationEnds =>
        /\ state'.step = "editing"
        /\ \A id \in DOMAIN FinishedImages :
            /\ id \in DOMAIN state'.generatedImages
            /\ state'.generatedImages[id] = FinishedImages[id]]_vars

\* C4: a stage operation that ends in an error leaves the step and its stage's
\* map as they were when it was invoked: proceedToRefinement (refinementData),
\* proceedToGeneration (generatedImages), proceedToCaptions (captions).
C4_StageFailureLeavesState ==
    [][/\ Reported("proceedToRefinement") =>
            /\ state'.step = CapturedState.step
            /\ state'.refinementData = CapturedState.refinementData
       /\ Reported("proceedToGeneration") =>
            /\ state'.step = CapturedState.step
            /\ state'.generatedImages = CapturedState.generatedImages
       /\ Reported("proceedToCaptions") =>
            /\ state'.step = CapturedState.step
            /\ state'.captions = CapturedState.captions]_vars

\* C5: generation is transient: when the image fan-out ends the step is
\* editing, and no step leads to a state that has step generation while no
\* operation is in flight (loading is false).
C5_GenerationTransient ==
    [][/\ GenerationEnds => state'.step = "editing"
       /\ ~loading' => state'.step # "generation"]_vars

C8_SelectIdeaValidates ==
    [][\A pid \in DOMAIN state'.selectedIdeaIds :
        (\/ pid \notin DOMAIN state.selectedIdeaIds
         \/ state'.selectedIdeaIds[pid] # state.selectedIdeaIds[pid]) =>
            /\ pid \in DOMAIN state.generatedIdeas
            /\ HasIdea(state.generatedIdeas[pid], state'.selectedIdeaIds[pid])]_vars

\* generateIdeas commits in this step.
GenerateIdeasSucceeds == Ends("generateIdeas") /\ ~Reported("generateIdeas")

\* C9, as claimed: after a successful generateIdeas every selected persona has
\* a non-empty list of ideas, each with that persona's id.
C9_IdeasNonEmpty ==
    [][GenerateIdeasSucceeds =>
        \A pid \in Range(state'.selectedPersonaIds) :
            /\ pid \in DOMAIN state'.generatedIdeas
            /\ Len(state'.generatedIdeas[pid]) > 0
            /\ \A m \in DOMAIN state'.generatedIdeas[pid] :
                state'.generatedIdeas[pid][m].personaId = pid]_vars

\* C9, amended: after a successful generateIdeas every selected persona has a
\* list of ideas, which is empty when the capability returned no idea (or, in
\* auto mode, no JSON array), and each idea in it has that persona's id.
C9_IdeasKeyedByPersona ==
    [][GenerateIdeasSucceeds =>
        \A pid \in Range(state'.selectedPersonaIds) :
            /\ pid \in DOMAIN state'.generatedIdeas
            /\ \A m \in DOMAIN state'.generatedIdeas[pid] :
                state'.generatedIdeas[pid][m].personaId = pid]_vars

\* Ideas are stored for two personas: none for one, some for the other.
C9_Witness ==
    /\ Len(state.selectedPersonaIds) = 2
    /\ \A pid \in Range(state.selectedPersonaIds) : pid \in DOMAIN state.generatedIdeas
    /\ \E pid \in DOMAIN state.generatedIdeas : Len(state.generatedIdeas[pid]) = 0
    /\ \E pid \in DOMAIN state.generatedIdeas : Len(state.generatedIdeas[pid]) > 0

----------------------------------------------------------------------------
(* The stage-advancing handlers called directly, whatever the buttons allow *)

\* proceedToIdeation() invoked whatever the Continue button allows.
proceedToIdeationCall ==
    /\ EditorFrame
    /\ CanClick("selection")
    /\ state' = (IF Len(state.selectedPersonaIds) = 0 THEN state
                 ELSE [state EXCEPT !.step = "ideation"])
    /\ UNCHANGED <<personas, loading, error, dbConnected, genCount, editInputs,
                   fetchPending, ops, now>>

\* proceedToRefinement() invoked whatever the Next Step button allows.
proceedToRefinementCall ==
    /\ EditorFrame
    /\ CanClick("ideation")
    /\ Continue(0, NewOp("proceedToRefinement", "null", "", NoId, NoId), 1,
                state, "null", TRUE)
    /\ now' = now
    /\ Frame

NextEngine ==
    \/ FetchPersonasOk
    \/ FetchPersonasFail
    \/ handleDeletePersona
    \/ handleStartCreating
    \/ SelectionBack
    \/ togglePersonaSelection
    \/ proceedToIdeationCall
    \/ ChooseManual
    \/ ManualBack
    \/ SetManualActivityInput
    \/ GenerateIdeasAuto
    \/ GenerateIdeasManual
    \/ ResolveGenerateIdeas
    \/ regenerateIdea
    \/ ResolveRegenerateIdea
    \/ ClickIdea
    \/ proceedToRefinementCall
    \/ ResolveRefinement

SpecEngine == Init /\ [][NextEngine]_vars

\* The selected idea ids of a state: selectedIdeaIds[p] of its selected
\* personas p.
SelectedIdeas(st) ==
    {st.selectedIdeaIds[pid] :
        pid \in {q \in Range(st.selectedPersonaIds) : q \in DOMAIN st.selectedIdeaIds}}

\* Every selected persona of the state has a chosen idea.
EveryPersonaChose(st) ==
    \A pid \in Range(st.selectedPersonaIds) : pid \in DOMAIN st.selectedIdeaIds

\* C11: the engine refuses to advance on an incomplete precondition: the step
\* becomes ideation only with a persona selected, refinement only if every
\* selected persona had a chosen idea when proceedToRefinement was invoked,
\* generation only if every selected idea has an entry in refinementData, and
\* captions only if every selected idea has an entry in generatedImages.
C11_EngineRefusesToAdvance ==
    [][state'.step # state.step =>
        /\ state'.step = "ideation" => state.selectedPersonaIds # << >>
        /\ state'.step = "refinement" => EveryPersonaChose(CapturedState)
        /\ state'.step = "generation" =>
            /\ EveryPersonaChose(state)
            /\ SelectedIdeas(state) \subseteq DOMAIN state.refinementData
        /\ state'.step = "captions" =>
            /\ EveryPersonaChose(state)
            /\ SelectedIdeas(state) \subseteq DOMAIN state.generatedImages]_vars

----------------------------------------------------------------------------

----------------------------------------------------------------------------
(* Image generation and editing with responses of several inline parts *)

\* The most inline parts a response to an image call carries here.
MaxImageParts == 2

\* An image call rejects, or resolves with 0..MaxImageParts inline parts.
ImagePartResponses ==
    {[kind |-> "fail", n |-> 0]} \cup {[kind |-> "ok", n |-> n] : n \in 0..MaxImageParts}

ResolveImageParts ==
    /\ EditorFrame
    /\ ops # << >>
    /\ ResolveImage(ImagePartResponses)

\* A campaign from the seed personas through automatic ideas to the editing
\* screen.
NextImages ==
    \/ FetchPersonasFail
    \/ handleStartCreating
    \/ togglePersonaSelection
    \/ proceedToIdeation
    \/ GenerateIdeasAuto
    \/ ResolveGenerateIdeas
    \/ ClickIdea
    \/ proceedToRefinement
    \/ ResolveRefinement
    \/ setGenCount
    \/ proceedToGeneration
    \/ ResolveImageParts
    \/ setEditInput
    \/ handleEditImage
    \/ ResolveEditImage

SpecImages == Init /\ [][NextImages]_vars

\* The positions at which two image lists of one length differ.
ChangedAt(old, new) == {m \in DOMAIN old : new[m] # old[m]}

\* C13: a successful edit replaces the image in place: when handleEditImage
\* ends, generatedImages has the same ideas and list lengths, every image keeps
\* its id and ideaId, at most one image (one with id imageId, in the list of
\* ideaId) has changed, and no other field of the state has changed.
C13_EditReplacesInPlace ==
    [][Ends("handleEditImage") =>
        LET o == ops[1]
            old == state.generatedImages
            new == state'.generatedImages
        IN  /\ state' = [state EXCEPT !.generatedImages = new]
            /\ DOMAIN new = DOMAIN old
            /\ \A d \in DOMAIN old :
                /\ Len(new[d]) = Len(old[d])
                /\ d # o.ideaId => new[d] = old[d]
                /\ \A m \in DOMAIN old[d] :
                    /\ new[d][m].id = old[d][m].id
                    /\ new[d][m].ideaId = old[d][m].ideaId
            /\ Cardinality(ChangedAt(old[o.ideaId], new[o.ideaId])) <= 1
            /\ \A m \in ChangedAt(old[o.ideaId], new[o.ideaId]) :
                old[o.ideaId][m].id = o.imageId]_vars

----------------------------------------------------------------------------

\* The edit that ends in this step has put an edited image in the place of
\* the image with id imageId, and has set no error.
EditSucceeds ==
    /\ error' = error
    /\ \E m \in DOMAIN state'.generatedImages[ops[1].ideaId] :
        /\ state'.generatedImages[ops[1].ideaId][m].id = ops[1].imageId
        /\ state'.generatedImages[ops[1].ideaId][m].imageUrl = "edited"

\* C14: an edit fails visibly when the capability returns no image content or
\* the call fails: when handleEditImage ends it has either replaced the image,
\* or the error "Editing failed." is set and the whole state (generatedImages
\* and step among it) is what it was when the edit was invoked.
C14_EditFailsVisibly ==
    [][Ends("handleEditImage") =>
        \/ EditSucceeds
        \/ /\ error' = ErrorMessage("handleEditImage")
           /\ state' = ops[1].cap
           /\ state' = state
           /\ ~loading']_vars

\* An edit has failed: the error is shown on the editing screen and no image
\* of the state is an edited one.
C14_Witness ==
    /\ error = ErrorMessage("handleEditImage")
    /\ state.step = "editing"
    /\ ~loading
    /\ EditedImages = {}
    /\ ShownImages # {}

----------------------------------------------------------------------------

\* C15: the step machine ends in complete: when proceedToCaptions ends having
\* stored a caption for every selected idea, the step is complete.
C15_CaptionsLeadToComplete ==
    [][(/\ Ends("proceedToCaptions")
        /\ SelectedIdeas(state') # {}
        /\ SelectedIdeas(state') \subseteq DOMAIN state'.captions) =>
            state'.step = "complete"]_vars

----------------------------------------------------------------------------

\* The updater selectIdea(personaId, ideaId) hands setState, applied to s.
SelectIdeaUpdater(s, personaId, ideaId) ==
    [s EXCEPT !.selectedIdeaIds = SelectIdeaMap(s.selectedIdeaIds, personaId, ideaId)]

\* C16: selectIdea is idempotent: in every reachable state, for every persona
\* id and idea id, selectIdea applied twice gives the WorkflowState that
\* selectIdea applied once gives.
C16_SelectIdeaIdempotent ==
    \A pid \in PersonaIds, iid \in AnyIdeaIds :
        SelectIdeaUpdater(SelectIdeaUpdater(state, pid, iid), pid, iid)
            = SelectIdeaUpdater(state, pid, iid)

\* A persona has a chosen idea and its list holds another idea to choose:
\* selectIdea has acted, and acts on a state with a different choice.
C16_Witness ==
    \E pid \in DOMAIN state.selectedIdeaIds :
        /\ pid \in DOMAIN state.generatedIdeas
        /\ \E m \in DOMAIN state.generatedIdeas[pid] :
            state.generatedIdeas[pid][m].id # state.selectedIdeaIds[pid]

----------------------------------------------------------------------------

\* C17: in manual mode ideation does not proceed with an empty brief: a
\* generateIdeas('manual') issues its first capability call, and commits
\* ideas, only if manualActivityInput was non-empty when it was invoked.
C17_ManualNeedsBrief ==
    [][/\ (/\ ops = << >> /\ ops' # << >>
           /\ ops'[1].kind = "generateIdeas" /\ ops'[1].mode = "manual") =>
                state.manualActivityInput # ""
       /\ (/\ Ends("generateIdeas") /\ ops[1].mode = "manual"
           /\ state'.generatedIdeas # state.generatedIdeas) =>
                ops[1].cap.manualActivityInput # ""]_vars

----------------------------------------------------------------------------

\* The handlers that loop over selectedPersonaIds with one call per persona.
FanOutKinds ==
    {"generateIdeas", "proceedToRefinement", "proceedToGeneration", "proceedToCaptions"}

\* The key under which the fan-out o stores the result for the persona it is
\* waiting for: the persona's id, or the id of the persona's chosen idea.
KeyAwaited(o) ==
    IF o.kind = "generateIdeas" THEN o.cap.selectedPersonaIds[o.idx]
    ELSE o.cap.selectedIdeaIds[o.cap.selectedPersonaIds[o.idx]]

\* The map of a state that a fan-out of this kind commits.
StageMap(kind, st) ==
    CASE kind = "generateIdeas" -> st.generatedIdeas
      [] kind = "proceedToRefinement" -> st.refinementData
      [] kind = "proceedToGeneration" -> st.generatedImages
      [] kind = "proceedToCaptions" -> st.captions

\* C18: within a fan-out the calls are serialized in selectedPersonaIds order:
\* one handler is in flight and waits for the call of one persona; when it
\* goes on, it goes to a later persona only having written the entry of the
\* persona it waited for, and it writes no other entry and changes none it
\* wrote before, so each entry is written once, whole; the map it commits at
\* its end holds the entries it wrote, with at most the last persona's added.
C18_FanOutSerialized ==
    [][/\ Len(ops') <= 1
       /\ (ops # << >> /\ ops' # << >> /\ ops[1].kind \in FanOutKinds) =>
            /\ ops'[1].kind = ops[1].kind
            /\ ops'[1].cap = ops[1].cap
            /\ ops'[1].idx >= ops[1].idx
            /\ ops'[1].idx <= Len(ops[1].cap.selectedPersonaIds)
            /\ \A key \in DOMAIN ops[1].acc :
                /\ key \in DOMAIN ops'[1].acc
                /\ ops'[1].acc[key] = ops[1].acc[key]
            /\ DOMAIN ops'[1].acc \ DOMAIN ops[1].acc \subseteq {KeyAwaited(ops[1])}
            /\ ops'[1].idx > ops[1].idx =>
                /\ KeyAwaited(ops[1]) \notin DOMAIN ops[1].acc
                /\ KeyAwaited(ops[1]) \in DOMAIN ops'[1].acc
       /\ (/\ ops # << >> /\ ops' = << >> /\ ops[1].kind \in FanOutKinds
           /\ StageMap(ops[1].kind, state') # StageMap(ops[1].kind, state)) =>
            /\ \A key \in DOMAIN ops[1].acc :
                /\ key \in DOMAIN StageMap(ops[1].kind, state')
                /\ StageMap(ops[1].kind, state')[key] = ops[1].acc[key]
            /\ DOMAIN StageMap(ops[1].kind, state') \ DOMAIN ops[1].acc
                    \subseteq {KeyAwaited(ops[1])}]_vars

\* A fan-out over two personas waits for the call of the second, the entry of
\* the first written.
C18_Witness ==
    /\ ops # << >>
    /\ ops[1].kind \in FanOutKinds
    /\ ops[1].idx = 2
    /\ DOMAIN ops[1].acc # {}

----------------------------------------------------------------------------

\* The records of the lists of a map, each with the list and position it is
\* stored at.
Stored(map) ==
    UNION {{<<d, m, map[d][m].id>> : m \in DOMAIN map[d]} : d \in DOMAIN map}

\* No two records stored in the lists of the map have the same id.
UniqueIds(map) ==
    \A a, b \in Stored(map) : a[3] = b[3] => a = b

\* C19: generated ids are unique within a run: in every reachable state no
\* two stored GeneratedIdea records have the same id, nor two
\* RefinementRequirement records, nor two GeneratedImage records.
C19_GeneratedIdsUnique ==
    /\ UniqueIds(state.generatedIdeas)
    /\ UniqueIds(state.refinementData)
    /\ UniqueIds(state.generatedImages)

----------------------------------------------------------------------------
(* Runs in which every capability call resolves *)

\* The responses of calls that resolve, with a body that parses or not.
Resolved(responses) == {r \in responses : r.kind # "fail"}

ResolveGenerateIdeasResolved ==
    /\ EditorFrame
    /\ ops # << >>
    /\ ResolveIdeas(Resolved(TextResponses(0..MaxIdeas)))

ResolveRefinementResolved ==
    /\ EditorFrame
    /\ ops # << >>
    /\ ResolveRequirements(Resolved(TextResponses({MaxReqs})))

ResolveCaptionsResolved ==
    /\ EditorFrame
    /\ ops # << >>
    /\ ResolveCaption(Resolved(TextResponses({1})))

\* A campaign from the seed personas to the captions in which no call to the
\* text model rejects, no persona is deleted and no idea list regenerated.
NextParse ==
    \/ FetchPersonasFail
    \/ handleStartCreating
    \/ togglePersonaSelection
    \/ proceedToIdeation
    \/ ChooseManual
    \/ SetManualActivityInput
    \/ GenerateIdeasAuto
    \/ GenerateIdeasManual
    \/ ResolveGenerateIdeasResolved
    \/ ClickIdea
    \/ proceedToRefinement
    \/ ResolveRefinementResolved
    \/ setGenCount
    \/ proceedToGeneration
    \/ ResolveImageCall
    \/ proceedToCaptions
    \/ ResolveCaptionsResolved

SpecParse == Init /\ [][NextParse]_vars

\* C20: a response body that fails to parse yields an empty or fallback
\* result and raises no exception to the stage operation: while every
\* capability call resolves, generateIdeas, proceedToRefinement and
\* proceedToCaptions never end in their catch block, whatever the bodies.
C20_ParseFailureNotRaised ==
    [][/\ ~Reported("generateIdeas")
       /\ ~Reported("proceedToRefinement")
       /\ ~Reported("proceedToCaptions")]_vars

----------------------------------------------------------------------------

\* C26: every chosen idea exists: in every reachable state each
\* selectedIdeaIds[pid] is the id of an idea in generatedIdeas[pid], also
\* after the persona's ideas were regenerated.
C26_ChosenIdeaExists ==
    \A pid \in DOMAIN state.selectedIdeaIds :
        /\ pid \in DOMAIN state.generatedIdeas
        /\ HasIdea(state.generatedIdeas[pid], state.selectedIdeaIds[pid])

----------------------------------------------------------------------------

----------------------------------------------------------------------------

\* No id occurs twice in the sequence.
NoDuplicate(s) == \A i, j \in DOMAIN s : s[i] = s[j] => i = j

\* The ids of s that are also in t, in the order of s.
Kept(s, t) == SelectSeq(s, LAMBDA x : x \in Range(t))

----------------------------------------------------------------------------

\* C29: after a successful generateImages(count, quality) every list
\* generatedImages[ideaId] has at most count images: when proceedToGeneration
\* commits, no list it stores is longer than the count it was invoked with.
C29_AtMostCountImages ==
    [][(Ends("proceedToGeneration") /\ state'.step = "editing") =>
        \A id \in DOMAIN state'.generatedImages :
            Len(state'.generatedImages[id]) <= ops[1].genCount]_vars

----------------------------------------------------------------------------
(* Runs in which every capability call eventually returns or fails *)

\* Every call in flight is eventually answered: the promise of
\* ai.models.generateContent settles.
CallsReturn ==
    /\ WF_vars(ResolveGenerateIdeas)
    /\ WF_vars(ResolveRegenerateIdea)
    /\ WF_vars(ResolveRefinement)
    /\ WF_vars(ResolveImageCall)
    /\ WF_vars(ResolveEditImage)
    /\ WF_vars(ResolveCaptions)

FairSpec == Init /\ [][Next]_vars /\ CallsReturn

\* C30: every stage operation that sets the loading flag clears it when it
\* ends, on success and on failure: whenever loading is true it is eventually
\* false, provided every capability call eventually returns or fails.
C30_LoadingEventuallyCleared == loading ~> ~loading

\* A stage operation has ended in its catch block and the loading flag is
\* clear.
C30_Witness ==
    /\ ~loading
    /\ ops = << >>
    /\ error = ErrorMessage("proceedToCaptions")
    /\ state.step = "captions"

----------------------------------------------------------------------------
(* The persona editor (renderPersonaEditor, shown on the dashboard) *)

\* The names typed into the name box.
Names == {"", "Ana"}

\* The public URL uploadImage returns.
PublicUrl == "https://store/personas/1.jpg"

\* The most reference images a persona carries.
MaxRefImages == 3

\* `p-${Date.now()}`
NewPersonaId(t) == "p-" \o ToString(t)

\* One more click or keystroke on a control of the editor.
EditorClick ==
    /\ editorClicks < MaxEditorClicks
    /\ editorClicks' = editorClicks + 1

\* The "Add Creator" card.
handleCreatePersona ==
    /\ EditorClick
    /\ CanClick("dashboard")
    /\ ~EditorShown
    /\ editingPersona' = EmptyPersona
    /\ isEditorOpen' = TRUE
    /\ UNCHANGED <<state, personas, loading, error, dbConnected, genCount,
                   editInputs, fetchPending, ops, now, personaData, uploading,
                   uploads, storeWrites, request>>

\* The Edit button of a persona card.
handleEditPersona ==
    /\ EditorClick
    /\ CanClick("dashboard")
    /\ ~EditorShown
    /\ \E id \in Range(personas) : editingPersona' = personaData[id]
    /\ isEditorOpen' = TRUE
    /\ UNCHANGED <<state, personas, loading, error, dbConnected, genCount,
                   editInputs, fetchPending, ops, now, personaData, uploading,
                   uploads, storeWrites, request>>

\* The X and Cancel buttons: setIsEditorOpen(false).  Neither is disabled
\* while an upload is in flight, and the persona stays in its cell.
CloseEditor ==
    /\ EditorClick
    /\ EditorShown
    /\ isEditorOpen' = FALSE
    /\ UNCHANGED <<state, personas, loading, error, dbConnected, genCount,
                   editInputs, fetchPending, ops, now, personaData,
                   editingPersona, uploading, uploads, storeWrites, request>>

\* onChange of the name box, which is not disabled while an upload is in
\* flight.
SetPersonaName ==
    /\ EditorClick
    /\ EditorShown
    /\ \E name \in Names :
        /\ name # editingPersona.name
        /\ editingPersona' = [editingPersona EXCEPT !.name = name]
    /\ UNCHANGED <<state, personas, loading, error, dbConnected, genCount,
                   editInputs, fetchPending, ops, now, personaData,
                   isEditorOpen, uploading, uploads, storeWrites, request>>

\* The Save button (disabled while uploading); a persona without a name is
\* not saved.  The new persona's id is a reading of the clock later than
\* every one before it.
handleSavePersona ==
    /\ EditorClick
    /\ EditorShown
    /\ ~uploading
    /\ editingPersona.name # ""
    /\ StoreReachable => Len(storeWrites) < MaxWrites
    /\ LET isNew == editingPersona.id = ""
           t == IF isNew THEN now + 1 ELSE now
           personaToSave ==
               [editingPersona EXCEPT
                  !.id = IF isNew THEN NewPersonaId(t) ELSE editingPersona.id]
       IN  /\ t <= MaxClock
           /\ now' = t
           /\ personas' = (IF isNew THEN <<personaToSave.id>> \o personas
                           ELSE personas)
           /\ personaData' =
                  [id \in Range(personas') |->
                      IF id = personaToSave.id THEN personaToSave
                      ELSE personaData[id]]
           /\ storeWrites' = Written(UpsertWrite(personaToSave))
    /\ isEditorOpen' = FALSE
    /\ editingPersona' = NullPersona
    /\ UNCHANGED <<state, loading, error, dbConnected, genCount, editInputs,
                   fetchPending, ops, uploading, uploads, request>>

\* An upload handler, from the file chosen to the first await.  It keeps the
\* editingPersona of the render it was invoked in.
StartUpload(field) ==
    /\ editingPersona # NullPersona
    /\ uploading' = TRUE
    /\ uploads' = Append(uploads, [field |-> field, cap |-> editingPersona])
    /\ UNCHANGED <<state, personas, loading, error, dbConnected, genCount,
                   editInputs, fetchPending, ops, now, personaData,
                   editingPersona, isEditorOpen, storeWrites, request>>

\* The portrait, clicked when no upload is in flight, and the file chosen.
handleAvatarUpload ==
    /\ EditorClick
    /\ EditorShown
    /\ ~uploading
    /\ StartUpload("avatarUrl")

\* The "+" tile of the reference images, shown below three images and
\* clicked when no upload is in flight, and the file chosen.
handleRefImageUpload ==
    /\ EditorClick
    /\ EditorShown
    /\ ~uploading
    /\ Len(editingPersona.refImages) < MaxRefImages
    /\ StartUpload("refImages")

\* { ...editingPersona, avatarUrl: publicUrl } or { ...editingPersona,
\* refImages: [...editingPersona.refImages, publicUrl] }, on the persona the
\* handler captured.
Uploaded(cap, field) ==
    IF field = "avatarUrl" THEN [cap EXCEPT !.avatarUrl = PublicUrl]
    ELSE [cap EXCEPT !.refImages = Append(@, PublicUrl)]

\* compressImageToBlob and uploadImage resolve: the rest of the handler.
ResolveUpload ==
    /\ \E k \in DOMAIN uploads :
        /\ editingPersona' = Uploaded(uploads[k].cap, uploads[k].field)
        /\ uploads' = RemoveAt(uploads, k)
    /\ uploading' = FALSE
    /\ UNCHANGED <<state, personas, loading, error, dbConnected, genCount,
                   editInputs, fetchPending, ops, now, personaData,
                   isEditorOpen, storeWrites, request, editorClicks>>

\* compressImageToBlob or uploadImage rejects: the alert, and finally.
RejectUpload ==
    /\ \E k \in DOMAIN uploads : uploads' = RemoveAt(uploads, k)
    /\ uploading' = FALSE
    /\ UNCHANGED <<state, personas, loading, error, dbConnected, genCount,
                   editInputs, fetchPending, ops, now, personaData,
                   editingPersona, isEditorOpen, storeWrites, request,
                   editorClicks>>

\* The remove button of a reference image.
removeRefImage ==
    /\ EditorClick
    /\ EditorShown
    /\ \E index \in DOMAIN editingPersona.refImages :
        editingPersona' =
            [editingPersona EXCEPT !.refImages = RemoveAt(@, index)]
    /\ UNCHANGED <<state, personas, loading, error, dbConnected, genCount,
                   editInputs, fetchPending, ops, now, personaData,
                   isEditorOpen, uploading, uploads, storeWrites, request>>

\* Persona management: the dashboard, the editor and the selection screen.
NextPersonas ==
    \/ FetchPersonasOk
    \/ FetchPersonasFail
    \/ handleCreatePersona
    \/ handleEditPersona
    \/ CloseEditor
    \/ SetPersonaName
    \/ handleSavePersona
    \/ handleAvatarUpload
    \/ handleRefImageUpload
    \/ ResolveUpload
    \/ RejectUpload
    \/ removeRefImage
    \/ handleDeletePersona
    \/ handleStartCreating
    \/ SelectionBack
    \/ togglePersonaSelection

SpecPersonas == Init /\ [][NextPersonas]_vars

----------------------------------------------------------------------------
(* C27 *)

\* C27: every id of selectedPersonaIds is the id of a persona of the personas
\* list, in every reachable state.
C27_SelectedPersonasExist ==
    \A i \in DOMAIN state.selectedPersonaIds :
        HasPersona(personas, state.selectedPersonaIds[i])

----------------------------------------------------------------------------
(* C28 *)

\* An upload handler in flight ends in this step.
UploadEnds == Len(uploads') < Len(uploads)

\* Personas p and q agree on every field but avatarUrl and refImages.
SameButImages(p, q) ==
    /\ p.id = q.id
    /\ p.name = q.name
    /\ p.location = q.location
    /\ p.country = q.country
    /\ p.niche = q.niche
    /\ p.bio = q.bio

\* C28: when an avatar or reference-image upload completes, the persona in
\* the editor differs from the one in the editor just before only in
\* avatarUrl or refImages: a name typed meanwhile is kept, and a persona
\* opened meanwhile is not replaced.
C28_UploadKeepsEditor ==
    [][UploadEnds => SameButImages(editingPersona, editingPersona')]_vars

----------------------------------------------------------------------------
(* C21 *)

\* The startup select has failed.
Disconnected == ~fetchPending /\ ~dbConnected

\* C21: when the startup select fails the persona list becomes the seed data
\* and the engine is marked disconnected; from then on it stays disconnected
\* and no save or delete of a persona sends a request to the personas table.
C21_NoWriteOnceDisconnected ==
    [][/\ (fetchPending /\ Disconnected') =>
              /\ personas' = SEED_PERSONAS
              /\ personaData' = SeedData
       /\ Disconnected => (Disconnected' /\ storeWrites' = storeWrites)]_vars

\* Disconnected, a persona has been saved and a seed persona deleted, and
\* the table has received nothing.
C21_Witness ==
    /\ Disconnected
    /\ storeWrites = << >>
    /\ \E i \in DOMAIN personas : personas[i] \notin Range(SEED_PERSONAS)
    /\ ~HasPersona(personas, "p1")

----------------------------------------------------------------------------
(* C22 *)

\* p with an absent niche or refImages turned into an empty list.
WithLists(p) == [p EXCEPT !.niche = OrList(@), !.refImages = OrList(@)]

\* C22: a persona mapped to its row and back is the persona, field by field,
\* but for an absent niche or refImages, which becomes an empty list.  The
\* personas are those handleSavePersona maps and upserts.
C22_PersonaRoundTrip ==
    \A i \in DOMAIN storeWrites :
        storeWrites[i].op = "upsert" =>
            mapPersonaFromDb(mapPersonaToDb(storeWrites[i].persona))
                = WithLists(storeWrites[i].persona)

----------------------------------------------------------------------------
(* generateUGCImages: the content parts of the image request *)

\* The reference images a persona carries: public URLs of the bucket, or
\* base64 data kept from earlier versions.
HttpUrls == {"https://store/personas/a.jpg", "https://store/personas/b.jpg"}

RefImageValues == HttpUrls \cup {"b2xk"}

\* imgUrl.startsWith('http')
StartsWithHttp(imgUrl) == imgUrl \in HttpUrls

\* What fetch(url) does: it rejects (no connection), or it resolves with a
\* response, whose status is 200 or an error status and whose body may be
\* empty.
FetchOutcomes ==
    {[rejects |-> TRUE, ok |-> FALSE, body |-> ""],
     [rejects |-> FALSE, ok |-> TRUE, body |-> "img"],
     [rejects |-> FALSE, ok |-> FALSE, body |-> "err"],
     [rejects |-> FALSE, ok |-> FALSE, body |-> ""]}

\* reader.result.split(',')[1] of readAsDataURL: the base64 of the body,
\* nothing for an empty one.
Base64(body) ==
    CASE body = "img" -> "aW1n"
      [] body = "err" -> "ZXJy"
      [] OTHER -> ""

\* urlToBase64: null when fetch or blob() throws, the payload of the data
\* URL of the body otherwise.  response.ok is not looked at.
urlToBase64(outcome) ==
    IF outcome.rejects THEN "null" ELSE Base64(outcome.body)

\* if (s) on a string or null
Truthy(s) == s \notin {"", "null"}

InlineData(data) == [kind |-> "inlineData", data |-> data]

\* The loop over persona.refImages; fetched[i] is what the fetch of the i-th
\* image does.
RECURSIVE PersonaParts(_, _)
PersonaParts(refImages, fetched) ==
    IF refImages = << >> THEN << >>
    ELSE LET imgUrl == Head(refImages)
             base64 == urlToBase64(Head(fetched))
             part == IF StartsWithHttp(imgUrl)
                     THEN IF Truthy(base64) THEN <<InlineData(base64)>>
                          ELSE << >>
                     ELSE <<InlineData(imgUrl)>>
         IN  part \o PersonaParts(Tail(refImages), Tail(fetched))

\* requirements.forEach(req => { if (req.referenceImage) parts.push(...) });
\* a requirement without a reference image carries "".
RECURSIVE ReferenceParts(_)
ReferenceParts(referenceImages) ==
    IF referenceImages = << >> THEN << >>
    ELSE (IF Truthy(Head(referenceImages))
          THEN <<InlineData(Head(referenceImages))>> ELSE << >>)
         \o ReferenceParts(Tail(referenceImages))

\* parts, as generateUGCImages sends it with every image call.
RequestParts(refImages, fetched, referenceImages) ==
    <<[kind |-> "text", data |-> "fullPrompt"]>>
        \o PersonaParts(refImages, fetched)
        \o ReferenceParts(referenceImages)

\* The sequences over S of length at most n.
SeqUpTo(S, n) == UNION {[1..k -> S] : k \in 0..n}

\* generateUGCImages up to its first image call, for a persona with the given
\* reference images and an idea with the given requirements: the first
\* request of the session.
generateUGCImagesParts ==
    /\ request = NoRequest
    /\ \E refImages \in SeqUpTo(RefImageValues, MaxRefImages),
          referenceImages \in SeqUpTo({"", "cmVm"}, MaxReqs) :
        \E fetched \in [DOMAIN refImages -> FetchOutcomes] :
            request' = [refImages |-> refImages,
                        fetched |-> fetched,
                        referenceImages |-> referenceImages,
                        parts |-> RequestParts(refImages, fetched,
                                               referenceImages)]
    /\ UNCHANGED <<state, personas, loading, error, dbConnected, genCount,
                   editInputs, fetchPending, ops, now, personaData,
                   editingPersona, isEditorOpen, uploading, uploads,
                   storeWrites, editorClicks>>

NextParts == generateUGCImagesParts

SpecParts == Init /\ [][NextParts]_vars

----------------------------------------------------------------------------
(* C25 *)

\* The fetch of the i-th reference image of the request failed.
FetchFailed(i) ==
    /\ StartsWithHttp(request.refImages[i])
    /\ request.fetched[i].rejects \/ ~request.fetched[i].ok

\* The data of the persona images whose fetch did not fail, from the i-th
\* on, in order.
RECURSIVE KeptFrom(_)
KeptFrom(i) ==
    IF i > Len(request.refImages) THEN << >>
    ELSE (IF FetchFailed(i) THEN << >>
          ELSE IF StartsWithHttp(request.refImages[i])
               THEN <<InlineData(Base64(request.fetched[i].body))>>
               ELSE <<InlineData(request.refImages[i])>>)
         \o KeptFrom(i + 1)

\* C25: the request is the text part, then the persona's reference images
\* whose fetch did not fail, then the requirements' reference images, in
\* their original order; an image whose fetch failed is left out.
C25_FailedFetchOmitted ==
    request # NoRequest =>
        request.parts =
            <<[kind |-> "text", data |-> "fullPrompt"]>>
                \o KeptFrom(1)
                \o ReferenceParts(request.referenceImages)

====
